---- MODULE Spec2Model ----
(***************************************************************************)
(* Model of the client-side state of next-dev-flow:                        *)
(*   - ThemeProvider        (src/context/ThemeProvider.tsx, lines 18-44)    *)
(*   - the Question form    (src/context/ThemeProvider.tsx, lines 78-309)   *)
(* Text values are sequences of one-character strings so that trim, length *)
(* and JSON.parse are computed and not assumed.                            *)
(***************************************************************************)
EXTENDS Integers, Sequences, FiniteSets, TLC

VARIABLES
    mode,          \* ThemeProvider: useState("light")
    effectDeps,    \* value of [mode] the effect last ran for; <<>> before the first run
    darkClass,     \* document.documentElement.classList contains "dark"
    type,          \* Question prop type: "Edit" or "undefined"
    mongoUserId,   \* Question prop mongoUserId (text)
    pathname,      \* current route (usePathname / router.push)
    title,         \* form value "title"
    explanation,   \* form value "explanation"
    tags,          \* form value "tags": ordered sequence of tag texts
    errors,        \* form errors per field
    tagInput,      \* DOM value of the tag <Input>
    submitting,    \* useState(false)
    procs          \* the handleSubmit(onSubmit) invocations, in order of their submit event

vars == <<mode, effectDeps, darkClass, type, mongoUserId, pathname, title,
          explanation, tags, errors, tagInput, submitting, procs>>

themeVars == <<mode, effectDeps, darkClass>>
propVars == <<type, mongoUserId>>
tagVars == <<tags, tagInput>>
draftVars == <<title, explanation>>
submitVars == <<pathname, submitting, procs>>

----------------------------------------------------------------------------
(* Bounds of the model *)

MaxPad == 1        \* spaces typed before / after a tag text
MaxSubmits == 2    \* submit events on one form instance

(* Program constants *)

MaxTagLen == 15            \* tag.length > 15
MaxTags == 3               \* "Add up to 3 tags"
MinExplanationLen == 20    \* "Minimum 20 characters."

----------------------------------------------------------------------------
(* Text helpers *)

Fill(n) == [i \in 1..n |-> "x"]

Spaces(n) == [i \in 1..n |-> " "]

RECURSIVE TrimStart(_)
TrimStart(s) ==
    IF s = <<>> THEN <<>>
    ELSE IF Head(s) = " " THEN TrimStart(Tail(s))
    ELSE s

RECURSIVE TrimEnd(_)
TrimEnd(s) ==
    IF s = <<>> THEN <<>>
    ELSE IF s[Len(s)] = " " THEN TrimEnd(SubSeq(s, 1, Len(s) - 1))
    ELSE s

\* String.prototype.trim
trim(s) == TrimEnd(TrimStart(s))

\* a membership test that never finds the tag
includesNothing(seq, x) == FALSE

\* Array.prototype.includes
includes(seq, x) == \E i \in 1..Len(seq) : seq[i] = x

\* Array.prototype.filter(t => t !== tag)
RECURSIVE filterNot(_, _)
filterNot(seq, tag) ==
    IF seq = <<>> THEN <<>>
    ELSE IF Head(seq) # tag THEN <<Head(seq)>> \o filterNot(Tail(seq), tag)
    ELSE filterNot(Tail(seq), tag)

----------------------------------------------------------------------------
(* Input domains *)

ShortTags == { <<"a">>, <<"b">>, <<"a", " ", "b">> }

TagBodies == {<<>>} \cup ShortTags \cup {Fill(MaxTagLen), Fill(MaxTagLen + 1)}

RawInputs ==
    { Spaces(l) \o b \o Spaces(r) : l \in 0..MaxPad, r \in 0..MaxPad, b \in TagBodies }

Keys == {"Enter", "a"}

Titles == { <<"t">> }

Explanations == { Fill(MinExplanationLen - 1), Fill(MinExplanationLen) }

QUOTE == "\""

MongoUserIds == { <<QUOTE, "u", QUOTE>>, <<"7">>, <<"u">>, <<QUOTE, "u">> }

FormRoute == "/ask-question"

\* the one tag text typed while submissions are explored
SubmitTagInputs == { <<"a">> }

NoErrors == [title |-> "none", explanation |-> "none", tags |-> "none"]

----------------------------------------------------------------------------
(* ThemeProvider *)

\* the effect without its else branch's setMode("light")
ThemeEffectOneWay ==
    /\ effectDeps # <<mode>>
    /\ effectDeps' = <<mode>>
    /\ IF mode = "light"
       THEN /\ mode' = "dark"
            /\ darkClass' = TRUE
       ELSE /\ mode' = mode
            /\ darkClass' = FALSE
    /\ UNCHANGED <<propVars, tagVars, draftVars, errors, submitVars>>

\* useEffect(() => {...}, [mode]): runs after mount and after every render
\* in which mode differs from the value it last ran for.
ThemeEffect ==
    /\ effectDeps # <<mode>>
    /\ effectDeps' = <<mode>>
    /\ IF mode = "light"
       THEN /\ mode' = "dark"
            /\ darkClass' = TRUE
       ELSE /\ mode' = "light"
            /\ darkClass' = FALSE
    /\ UNCHANGED <<propVars, tagVars, draftVars, errors, submitVars>>

----------------------------------------------------------------------------
(* Question form: tag editor *)

\* the user types into the tag <Input> (uncontrolled DOM value)
TypeTagInputFrom(inputs) ==
    /\ pathname = FormRoute
    /\ \E raw \in inputs :
        /\ raw # tagInput
        /\ tagInput' = raw
    /\ UNCHANGED <<themeVars, propVars, draftVars, tags, errors, submitVars>>

TypeTagInput == TypeTagInputFrom(RawInputs)

TypeSubmitTagInput == TypeTagInputFrom(SubmitTagInputs)

\* the length test written with >= : a tag of exactly MaxTagLen is refused
TooLongOffByOne(tag) == Len(tag) >= MaxTagLen

\* the length test left out
TooLongNever(tag) == FALSE

\* tag.length > 15
TooLong(tag) == Len(tag) > MaxTagLen

\* form.trigger("tags"): re-validates the tags field against the schema
TriggerTags == [errors EXCEPT !.tags = "none"]

handleInoutKeyDown(key) ==
    /\ pathname = FormRoute
    /\ LET tag == trim(tagInput) IN
        IF key = "Enter"
        THEN IF tag # <<>>
             THEN IF TooLong(tag)
                  THEN /\ errors' = [errors EXCEPT !.tags = "max"]
                       /\ UNCHANGED <<tags, tagInput>>
                  ELSE IF ~includes(tags, tag)
                       THEN /\ tags' = tags \o <<tag>>
                            /\ tagInput' = <<>>
                            /\ errors' = [errors EXCEPT !.tags = "none"]
                       ELSE UNCHANGED <<tags, tagInput, errors>>
             ELSE /\ errors' = TriggerTags
                  /\ UNCHANGED <<tags, tagInput>>
        ELSE UNCHANGED <<tags, tagInput, errors>>
    /\ UNCHANGED <<themeVars, propVars, draftVars, submitVars>>

KeyDown == \E key \in Keys : handleInoutKeyDown(key)

handleTagRemove(tag) ==
    /\ pathname = FormRoute
    /\ tags' = filterNot(tags, tag)
    /\ UNCHANGED <<themeVars, propVars, draftVars, tagInput, errors, submitVars>>

\* onClick of a rendered Badge (one per tag, in every mode)
BadgeClick == \E i \in 1..Len(tags) : handleTagRemove(tags[i])

----------------------------------------------------------------------------
(* Question form: title and explanation fields *)

\* the title <Input {...field}> changes
SetTitle ==
    /\ pathname = FormRoute
    /\ \E t \in Titles \cup {<<>>} :
        /\ t # title
        /\ title' = t
    /\ UNCHANGED <<themeVars, propVars, explanation, tagVars, errors, submitVars>>

\* onEditorChange={(content) => field.onChange(content)}
SetExplanation ==
    /\ pathname = FormRoute
    /\ \E e \in Explanations :
        /\ e # explanation
        /\ explanation' = e
    /\ UNCHANGED <<themeVars, propVars, title, tagVars, errors, submitVars>>

----------------------------------------------------------------------------
(* Question form: submission *)

Digits == {"0", "1", "2", "3", "4", "5", "6", "7", "8", "9"}

\* JSON.parse on the texts a user id can be: a quoted string without escapes
\* or an unsigned integer; anything else throws SyntaxError.
JSONParse(s) ==
    IF /\ Len(s) >= 2
       /\ s[1] = QUOTE
       /\ s[Len(s)] = QUOTE
       /\ \A i \in 2..(Len(s) - 1) : s[i] # QUOTE
    THEN [ok |-> TRUE, value |-> SubSeq(s, 2, Len(s) - 1)]
    ELSE IF /\ Len(s) >= 1
            /\ \A i \in 1..Len(s) : s[i] \in Digits
            /\ (Len(s) > 1 => s[1] # "0")
         THEN [ok |-> TRUE, value |-> s]
         ELSE [ok |-> FALSE, value |-> <<>>]

\* QuestionSchema (@/lib/validation): required title, explanation of at least
\* MinExplanationLen characters, tags array present.
QuestionSchema(values) ==
    [title       |-> IF Len(values.title) = 0 THEN "required" ELSE "none",
     explanation |-> IF Len(values.explanation) < MinExplanationLen THEN "min" ELSE "none",
     tags        |-> "none"]

\* the argument object with content taken from the title
PayloadContentFromTitle(values, author, path) ==
    [title   |-> values.title,
     content |-> values.title,
     tags    |-> values.tags,
     author  |-> author,
     path    |-> path]

\* the argument object of createQuestion
Payload(values, author, path) ==
    [title   |-> values.title,
     content |-> values.explanation,
     tags    |-> values.tags,
     author  |-> author,
     path    |-> path]

\* form.handleSubmit(onSubmit) receives a submit event: the values and the
\* closure of this render are captured and the resolver is started.
\* The submit Button is disabled={submitting}.
SubmitEvent ==
    /\ pathname = FormRoute
    /\ ~submitting
    /\ Len(procs) < MaxSubmits
    /\ procs' = Append(procs,
                  [pc      |-> "validating",
                   values  |-> [title |-> title, explanation |-> explanation, tags |-> tags],
                   path    |-> pathname,
                   calls   |-> <<>>,
                   pushes  |-> <<>>,
                   logged  |-> <<>>,
                   outcome |-> "none"])
    /\ UNCHANGED <<themeVars, propVars, draftVars, tagVars, errors, pathname, submitting>>

\* onSubmit with JSON.parse(mongoUserId) evaluated before the try block:
\* the SyntaxError leaves onSubmit, nothing is logged, finally does not run
onSubmitCallParseBeforeTry(i) ==
    LET p == procs[i]
        author == JSONParse(mongoUserId)
    IN  IF author.ok
        THEN /\ submitting' = TRUE
             /\ procs' = [procs EXCEPT ![i] =
                    [p EXCEPT !.pc = "awaitCreate",
                              !.calls = Append(p.calls, Payload(p.values, author.value, p.path))]]
             /\ UNCHANGED pathname
        ELSE /\ submitting' = TRUE
             /\ procs' = [procs EXCEPT ![i] =
                    [p EXCEPT !.pc = "done", !.outcome = "threw"]]
             /\ UNCHANGED pathname

\* onSubmit(values) up to its await: setSubmitting(true), then inside try the
\* argument object is built (JSON.parse(mongoUserId)) and createQuestion is
\* called; a throw goes to catch (console.log) and finally (setSubmitting(false)).
onSubmitCall(i) ==
    LET p == procs[i]
        author == JSONParse(mongoUserId)
    IN  IF author.ok
        THEN /\ submitting' = TRUE
             /\ procs' = [procs EXCEPT ![i] =
                    [p EXCEPT !.pc = "awaitCreate",
                              !.calls = Append(p.calls, Payload(p.values, author.value, p.path))]]
             /\ UNCHANGED pathname
        ELSE /\ submitting' = FALSE
             /\ procs' = [procs EXCEPT ![i] =
                    [p EXCEPT !.pc = "done",
                              !.logged = Append(p.logged, "SyntaxError"),
                              !.outcome = "threw"]]
             /\ UNCHANGED pathname

\* the resolver of invocation i completes: errors are stored; with no error
\* onSubmit is called with the captured values.
ValidationComplete ==
    \E i \in 1..Len(procs) :
        /\ procs[i].pc = "validating"
        /\ errors' = QuestionSchema(procs[i].values)
        /\ IF errors' = NoErrors
           THEN onSubmitCall(i)
           ELSE /\ procs' = [procs EXCEPT ![i] =
                       [procs[i] EXCEPT !.pc = "done", !.outcome = "invalid"]]
                /\ UNCHANGED <<pathname, submitting>>
        /\ UNCHANGED <<themeVars, propVars, draftVars, tagVars>>

\* await createQuestion(...) resolves: router.push("/"), finally setSubmitting(false)
onSubmitResolved(i) ==
    /\ pathname' = "/"
    /\ submitting' = FALSE
    /\ procs' = [procs EXCEPT ![i] =
           [procs[i] EXCEPT !.pc = "done",
                            !.pushes = Append(procs[i].pushes, "/"),
                            !.outcome = "resolved"]]

\* await createQuestion(...) rejects: console.log(error), finally setSubmitting(false)
onSubmitRejected(i) ==
    /\ submitting' = FALSE
    /\ procs' = [procs EXCEPT ![i] =
           [procs[i] EXCEPT !.pc = "done",
                            !.logged = Append(procs[i].logged, "Rejected"),
                            !.outcome = "rejected"]]
    /\ UNCHANGED pathname

CreateQuestionResolve ==
    \E i \in 1..Len(procs) :
        /\ procs[i].pc = "awaitCreate"
        /\ onSubmitResolved(i)
        /\ UNCHANGED <<themeVars, propVars, draftVars, tagVars, errors>>

CreateQuestionReject ==
    \E i \in 1..Len(procs) :
        /\ procs[i].pc = "awaitCreate"
        /\ onSubmitRejected(i)
        /\ UNCHANGED <<themeVars, propVars, draftVars, tagVars, errors>>

----------------------------------------------------------------------------

Init ==
    /\ mode = "light"
    /\ effectDeps = <<>>
    /\ darkClass = FALSE
    /\ type \in {"Edit", "undefined"}
    /\ mongoUserId \in MongoUserIds
    /\ pathname = FormRoute
    /\ title = <<>>
    /\ explanation = <<>>
    /\ tags = <<>>
    /\ errors = NoErrors
    /\ tagInput = <<>>
    /\ submitting = FALSE
    /\ procs = <<>>

\* the tag editor
NextTags == TypeTagInput \/ KeyDown \/ BadgeClick

\* title, explanation and the submission life cycle
NextSubmit ==
    \/ SetTitle
    \/ SetExplanation
    \/ TypeSubmitTagInput
    \/ KeyDown
    \/ SubmitEvent
    \/ ValidationComplete
    \/ CreateQuestionResolve
    \/ CreateQuestionReject

\* the theme effect while the draft is edited
NextTheme == ThemeEffect \/ SetTitle \/ SetExplanation

Next == NextTheme \/ NextTags \/ NextSubmit

Spec == Init /\ [][Next]_vars

SpecTags == Init /\ [][NextTags]_vars

SpecSubmit == Init /\ [][NextSubmit]_vars

\* React runs a pending passive effect after every commit
SpecTheme == Init /\ [][NextTheme]_vars /\ WF_vars(ThemeEffect)

----------------------------------------------------------------------------
(* Vocabulary of the properties, stated without the operators of the model *)

Last(seq) == seq[Len(seq)]

Occurs(seq, x) == \E i \in 1..Len(seq) : seq[i] = x

NoDuplicates(seq) == \A i, j \in 1..Len(seq) : seq[i] = seq[j] => i = j

\* raw from its first to its last character that is not a space
TrimmedText(raw) ==
    LET inked == { i \in 1..Len(raw) : raw[i] # " " } IN
    IF inked = {} THEN <<>>
    ELSE SubSeq(raw, CHOOSE i \in inked : \A j \in inked : i <= j,
                     CHOOSE i \in inked : \A j \in inked : i >= j)

\* the createQuestion calls in flight
InFlight == { i \in 1..Len(procs) : procs[i].pc = "awaitCreate" }

\* the ids JSON.parse refuses
MalformedIds == { <<"u">>, <<QUOTE, "u">> }

\* a is what the JSON text id denotes
Denotes(id, a) == id = <<QUOTE>> \o a \o <<QUOTE>> \/ (id = a /\ a[1] \in Digits)

ValidDraft(values) ==
    /\ values.title # <<>>
    /\ Len(values.explanation) >= MinExplanationLen

----------------------------------------------------------------------------
(* Properties *)

\* C1: submit is mutually exclusive: no second createQuestion call starts
\* while submitting is true, so at most one call is in flight at any time.
C1_AtMostOneCallInFlight == Cardinality(InFlight) <= 1

\* C2: a submit whose draft passes validation and whose createQuestion call
\* resolves has made exactly one call, with title, content and tags of the
\* draft, the parsed mongoUserId as author and the form's route as path, and
\* has navigated to "/" once; no submit navigates unless its call resolved.
C2_OneCallThenNavigate ==
    \A i \in 1..Len(procs) :
        LET p == procs[i] IN
        /\ p.outcome = "resolved" =>
              /\ ValidDraft(p.values)
              /\ Len(p.calls) = 1
              /\ p.calls[1].title = p.values.title
              /\ p.calls[1].content = p.values.explanation
              /\ p.calls[1].tags = p.values.tags
              /\ Denotes(mongoUserId, p.calls[1].author)
              /\ p.calls[1].path = FormRoute
              /\ p.pushes = <<"/">>
        /\ p.pushes # <<>> => p.outcome = "resolved"
        /\ p.pc = "awaitCreate" => (Len(p.calls) = 1 /\ p.pushes = <<>>)

C2_Witness ==
    \E i \in 1..Len(procs) :
        /\ procs[i].outcome = "resolved"
        /\ procs[i].values.tags # <<>>
        /\ pathname = "/"

\* C3: submitting is not reset before the createQuestion call of a submit
\* has completed: while a call is in flight, submitting is true.
C3_NotResetBeforeCompletion == InFlight # {} => submitting

\* C4: Enter on an input whose trimmed text t is non-empty, at most
\* MaxTagLen long and not among the tags appends t: the length grows by one,
\* every earlier tag keeps its position and t is last.
C4_AddValidTag ==
    [][ LET t == TrimmedText(tagInput) IN
        (/\ handleInoutKeyDown("Enter")
         /\ t # <<>>
         /\ Len(t) <= MaxTagLen
         /\ ~Occurs(tags, t))
        => /\ Len(tags') = Len(tags) + 1
           /\ \A i \in 1..Len(tags) : tags'[i] = tags[i]
           /\ Last(tags') = t ]_vars

C4_Witness ==
    /\ Len(tags) >= 2
    /\ Len(Last(tags)) = MaxTagLen
    /\ Occurs(tags, <<"a", " ", "b">>)
    /\ tagInput = <<>>

\* C5: Enter on an input whose trimmed text is longer than MaxTagLen leaves
\* the tags as they are and sets an error on the tags field.
C5_RejectLongTag ==
    [][ (/\ handleInoutKeyDown("Enter")
         /\ Len(TrimmedText(tagInput)) > MaxTagLen)
        => /\ tags' = tags
           /\ errors'.tags # "none" ]_vars

C5_Witness ==
    /\ Len(TrimmedText(tagInput)) > MaxTagLen
    /\ tagInput # TrimmedText(tagInput)
    /\ errors.tags = "max"
    /\ tags # <<>>

\* C6: the draft never holds more than MaxTags tags.
C6_TagCap == Len(tags) <= MaxTags

\* C7: no tag text occurs twice in the tags, and Enter on an input whose
\* trimmed text is already among the tags leaves the tags as they are.
C7_Dedup ==
    /\ []NoDuplicates(tags)
    /\ [][ (/\ handleInoutKeyDown("Enter")
            /\ Occurs(tags, TrimmedText(tagInput)))
           => tags' = tags ]_vars

C7_Witness ==
    /\ Len(tags) >= 2
    /\ Occurs(tags, TrimmedText(tagInput))
    /\ tagInput # TrimmedText(tagInput)

\* C8: with type "Edit", a click on a tag badge leaves the tags unchanged.
C8_NoRemoveInEdit == [][ (type = "Edit" /\ BadgeClick) => tags' = tags ]_vars

\* C9 as stated: the SyntaxError of JSON.parse(mongoUserId) leaves onSubmit
\* uncaught: it is never logged by the catch block.
C9_ParseFailureUncaught ==
    \A i \in 1..Len(procs) : procs[i].outcome = "threw" => procs[i].logged = <<>>

\* C9 amended: with a malformed mongoUserId every submit of a valid draft ends
\* in the catch block: the SyntaxError is logged once, no createQuestion call
\* and no navigation is made, and submitting is false again.
C9_ParseFailureCaught ==
    mongoUserId \in MalformedIds =>
        /\ ~submitting
        /\ \A i \in 1..Len(procs) :
              LET p == procs[i] IN
              /\ p.calls = <<>>
              /\ p.pushes = <<>>
              /\ (p.pc = "done" /\ ValidDraft(p.values)) => p.logged = <<"SyntaxError">>
              /\ (p.pc = "done" /\ ~ValidDraft(p.values)) => p.logged = <<>>

C9_Witness ==
    /\ mongoUserId \in MalformedIds
    /\ \E i \in 1..Len(procs) :
          /\ procs[i].pc = "done"
          /\ ValidDraft(procs[i].values)
          /\ procs[i].logged = <<"SyntaxError">>

\* C10: the mode never stabilises: it is light infinitely often and dark
\* infinitely often.
C10_ModeFlipsForever == ([]<>(mode = "light")) /\ ([]<>(mode = "dark"))

C10_Witness == mode = "light" /\ effectDeps = <<"dark">> /\ ~darkClass

====
